---- MODULE Spec2Model ----
(***************************************************************************)
(* Two-level cache hierarchy with stream-buffer prefetching (src/cache.cc). *)
(* One action, Access, is one call L1.access(address, rw) of the driver,    *)
(* with every call it makes on the lower level included.                    *)
(*                                                                          *)
(* Addresses are uint32_t in the source.  Every address of the model is     *)
(* far below 2^31, so no uint32_t operation of the model wraps and plain    *)
(* integer arithmetic is the source's arithmetic.                           *)
(***************************************************************************)
EXTENDS Integers, Sequences, FiniteSets

VARIABLES
    cfg,    \* the hierarchy: L1's geometry, whether L1 has a lower level, L2's geometry
    L1,     \* the Cache the driver calls
    L2,     \* L1's lower_level (the default-constructed Cache when there is none)
    obs,    \* history, per level: what the accesses made so far have done
    trace,  \* history: the driver's accesses so far
    last,   \* history: what the last driver access did on L1
    steps,  \* history: the lower-level calls of the last driver access, each
            \* with L2 as that call left it
    unsaved \* history: the blocks the driver wrote since the last write L1
            \* issued to its lower level for them (since the start if none)

vars == <<cfg, L1, L2, obs, trace, last, steps, unsaved>>

\* Number of driver accesses explored.
MaxAccesses == 4

\* Byte addresses the driver may issue: blocks 0, 1, 2, 3 and 100 at
\* blocksize 16; 20 (block 1) and 1615 (block 100) have a non-zero offset.
Addresses == {0, 16, 20, 32, 48, 1615}

Ops == {"r", "w"}

\* ------------------------------------------------------------------------
\* Arithmetic helpers

RECURSIVE Pow2(_)
Pow2(n) == IF n = 0 THEN 1 ELSE 2 * Pow2(n - 1)

\* static_cast<uint32_t>(std::log2(n)) for n >= 1
RECURSIVE Log2(_)
Log2(n) == IF n <= 1 THEN 0 ELSE 1 + Log2(n \div 2)

ShiftRight(x, n) == x \div Pow2(n)

ShiftLeft(x, n) == x * Pow2(n)

\* ------------------------------------------------------------------------
\* Geometry: the constructor's arguments and what it derives from them.
\* A geometry is [blocksize, size, assoc, pref_n, pref_m].

Geometry(blocksize, size, assoc, pref_n, pref_m) ==
    [blocksize |-> blocksize, size |-> size, assoc |-> assoc,
     pref_n |-> pref_n, pref_m |-> pref_m]

num_sets(g) == g.size \div (g.blocksize * g.assoc)

num_index_bits(g) == Log2(num_sets(g))

num_offset_bits(g) == Log2(g.blocksize)

num_tag_bits(g) == 32 - (num_index_bits(g) + num_offset_bits(g))

\* The hierarchies explored: L1 alone with a prefetcher (direct-mapped, 4
\* sets; 2-way, 1 set, two stream buffers), L1 (direct-mapped, 2 sets) over
\* an L2 that prefetches,
\* and an L1 that prefetches over an L2.
Configs ==
    { [L1 |-> Geometry(16, 64, 1, 1, 4), hasL2 |-> FALSE, L2 |-> Geometry(0, 0, 0, 0, 0)],
      [L1 |-> Geometry(16, 32, 2, 2, 2), hasL2 |-> FALSE, L2 |-> Geometry(0, 0, 0, 0, 0)],
      [L1 |-> Geometry(16, 32, 1, 0, 0), hasL2 |-> TRUE,  L2 |-> Geometry(16, 64, 2, 1, 2)],
      [L1 |-> Geometry(16, 32, 2, 1, 2), hasL2 |-> TRUE,  L2 |-> Geometry(16, 64, 4, 0, 0)] }

\* ------------------------------------------------------------------------
\* Construction

\* initial_stream_buffers with the loop running to i <= pref_n.
initial_stream_buffers_one_more(pref_n, pref_m) ==
    [k \in 1..(pref_n + 1) |->
        [valid |-> FALSE, head |-> 0, blocks |-> [i \in 0..(pref_m - 1) |-> 0]]]

\* Lines 45-51: pref_n invalid stream buffers of pref_m blocks.
initial_stream_buffers(pref_n, pref_m) ==
    [k \in 1..pref_n |->
        [valid |-> FALSE, head |-> 0, blocks |-> [i \in 0..(pref_m - 1) |-> 0]]]

\* Cache::Cache(blocksize, size, assoc, pref_n, pref_m, lower_level)
NewCache(g) ==
    [sets |-> [i \in 0..(num_sets(g) - 1) |->
                 [j \in 0..(g.assoc - 1) |->
                    [valid |-> FALSE, dirty |-> FALSE, tag |-> 0, lru_counter |-> j]]],
     stream_buffers |-> initial_stream_buffers(g.pref_n, g.pref_m),
     reads |-> 0, writes |-> 0, read_misses |-> 0, write_misses |-> 0,
     write_backs |-> 0, prefetches |-> 0, nextLevelDemands |-> 0]

\* Cache::Cache(): the absent L2.  nextLevelDemands is left uninitialised by
\* this constructor and is read by nothing; it is kept as a marker value.
DefaultCache ==
    [sets |-> <<>>, stream_buffers |-> <<>>,
     reads |-> 0, writes |-> 0, read_misses |-> 0, write_misses |-> 0,
     write_backs |-> 0, prefetches |-> 0, nextLevelDemands |-> "indeterminate"]

\* ------------------------------------------------------------------------
\* Address decoding (first lines of Cache::access, check_prefetch)

TagOf(g, address) == ShiftRight(address, 32 - num_tag_bits(g))

IndexOf(g, address) ==
    LET set_mask == ShiftLeft(1, num_index_bits(g)) - 1
    IN  ShiftRight(address, num_offset_bits(g)) % (set_mask + 1)

BlockOf(g, address) == ShiftRight(address, num_offset_bits(g))

\* ------------------------------------------------------------------------
\* LRU

\* Cache::find_victim: the first way holding the largest lru_counter.
RECURSIVE FindVictimLoop(_, _, _, _, _)
FindVictimLoop(set, assoc, i, lru_index, max_lru) ==
    IF i >= assoc THEN lru_index
    ELSE IF set[i].lru_counter > max_lru
         THEN FindVictimLoop(set, assoc, i + 1, i, set[i].lru_counter)
         ELSE FindVictimLoop(set, assoc, i + 1, lru_index, max_lru)

\* find_victim without the search: way 0.
find_victim_way0(set, assoc) == 0

find_victim(set, assoc) == FindVictimLoop(set, assoc, 0, 0, set[0].lru_counter)

\* update_lru incrementing every other way's counter.
update_lru_all(set, assoc, set_way) ==
    [i \in 0..(assoc - 1) |->
        IF i = set_way THEN [set[i] EXCEPT !.lru_counter = 0]
        ELSE [set[i] EXCEPT !.lru_counter = @ + 1]]

\* Cache::update_lru: the accessed way goes to 0, every counter below the
\* accessed way's old counter is incremented.
update_lru(set, assoc, set_way) ==
    LET oldCounter == set[set_way].lru_counter
    IN  [i \in 0..(assoc - 1) |->
            IF i = set_way THEN [set[i] EXCEPT !.lru_counter = 0]
            ELSE IF set[i].lru_counter < oldCounter
                 THEN [set[i] EXCEPT !.lru_counter = @ + 1]
                 ELSE set[i]]

\* ------------------------------------------------------------------------
\* Stream buffers.  stream_buffers is the std::list, front (MRU) first; a
\* buffer index of the source is 0-based, so buffer k of the source is
\* stream_buffers[k + 1].

\* Inner loop of check_prefetch: the first slot holding block_addr, or -1.
RECURSIVE FindSlot(_, _, _, _)
FindSlot(blocks, pref_m, i, block_addr) ==
    IF i >= pref_m THEN -1
    ELSE IF blocks[i] = block_addr THEN i
    ELSE FindSlot(blocks, pref_m, i + 1, block_addr)

\* next_head staying on the slot of the block found.
next_head_same(i, pref_m) == i % pref_m

\* Line 256: the head moves to the slot after the block found.
next_head(i, pref_m) == (i + 1) % pref_m

\* Outer loop of check_prefetch, over the buffers in MRU order.
RECURSIVE CheckPrefetchLoop(_, _, _, _)
CheckPrefetchLoop(stream_buffers, pref_m, buffer_index, block_addr) ==
    IF buffer_index >= Len(stream_buffers)
    THEN [index |-> -1, stream_buffers |-> stream_buffers]
    ELSE LET it == stream_buffers[buffer_index + 1]
             i  == IF it.valid THEN FindSlot(it.blocks, pref_m, 0, block_addr) ELSE -1
         IN  IF i # -1
             THEN [index |-> buffer_index,
                   stream_buffers |->
                      [stream_buffers EXCEPT ![buffer_index + 1].head = next_head(i, pref_m)]]
             ELSE CheckPrefetchLoop(stream_buffers, pref_m, buffer_index + 1, block_addr)

\* Cache::check_prefetch: the index of the first buffer holding the block
\* (its head moved past the block), or -1.
check_prefetch(g, stream_buffers, address) ==
    CheckPrefetchLoop(stream_buffers, g.pref_m, 0, BlockOf(g, address))

\* A call made on the lower level: lower_level->access(address, rw).  site
\* names the call site: "writeback" (line 135), "demand" (line 148),
\* "prefetch" (lines 280 and 296).
Call(address, rw, site) == [address |-> address, rw |-> rw, site |-> site]

PrefetchCall(g, lower, block) ==
    IF lower THEN <<Call(ShiftLeft(block, num_offset_bits(g)), "r", "prefetch")>>
    ELSE <<>>

\* reset_head with the reset forgotten.
keep_head(it) == it

\* Line 283: a new stream is read from slot 0.
reset_head(it) == [it EXCEPT !.head = 0]

\* fill_prefetch, is_new_stream: every slot i gets block_addr + 1 + i.
RECURSIVE NewStreamLoop(_, _, _, _, _, _)
NewStreamLoop(g, lower, block_addr, i, it, acc) ==
    IF i >= g.pref_m
    THEN [it |-> reset_head(it), prefetches |-> acc.prefetches, calls |-> acc.calls]
    ELSE NewStreamLoop(g, lower, block_addr, i + 1,
                       [it EXCEPT !.blocks[i] = block_addr + 1 + i],
                       [prefetches |-> acc.prefetches + 1,
                        calls |-> acc.calls \o PrefetchCall(g, lower, block_addr + 1 + i)])

\* is_stale with every slot taken as stale.
is_stale_always(it, pos, expected_block) == TRUE

\* Line 291: the slot does not hold the block expected there.
is_stale(it, pos, expected_block) == it.blocks[pos] # expected_block

\* continue_done with the loop running to i <= pref_m.
continue_done_late(i, pref_m) == i > pref_m

\* Line 287: the loop over the pref_m slots ends.
continue_done(i, pref_m) == i >= pref_m

\* fill_prefetch, existing stream: from head on, slot (head + i) % pref_m is
\* rewritten when it does not hold block_addr + 1 + i.
RECURSIVE ContinueLoop(_, _, _, _, _, _)
ContinueLoop(g, lower, block_addr, i, it, acc) ==
    IF continue_done(i, g.pref_m)
    THEN [it |-> it, prefetches |-> acc.prefetches, calls |-> acc.calls]
    ELSE LET pos            == (it.head + i) % g.pref_m
             expected_block == block_addr + 1 + i
         IN  IF is_stale(it, pos, expected_block)
             THEN ContinueLoop(g, lower, block_addr, i + 1,
                               [it EXCEPT !.blocks[pos] = expected_block],
                               [prefetches |-> acc.prefetches + 1,
                                calls |-> acc.calls \o PrefetchCall(g, lower, expected_block)])
             ELSE ContinueLoop(g, lower, block_addr, i + 1, it, acc)

\* stream_buffers.splice(begin, stream_buffers, it): the buffer moves to the front.
MoveToFront(stream_buffers, buffer_index, it) ==
    <<it>> \o SubSeq(stream_buffers, 1, buffer_index)
           \o SubSeq(stream_buffers, buffer_index + 2, Len(stream_buffers))

\* Cache::fill_prefetch: the refilled list, the prefetches counted and the
\* reads issued to the lower level, in order.
fill_prefetch(g, stream_buffers, lower, buffer_index, address, is_new_stream) ==
    LET it0  == stream_buffers[buffer_index + 1]
        none == [prefetches |-> 0, calls |-> <<>>]
        done == IF is_new_stream
                THEN NewStreamLoop(g, lower, BlockOf(g, address), 0, it0, none)
                ELSE ContinueLoop(g, lower, BlockOf(g, address), 0, it0, none)
        it   == [done.it EXCEPT !.valid = TRUE]
    IN  [stream_buffers |-> MoveToFront(stream_buffers, buffer_index, it),
         prefetches |-> done.prefetches,
         calls |-> done.calls]

\* ------------------------------------------------------------------------
\* Cache::access

\* v.tag << (index + offset bits) | index << offset bits
RECURSIVE BitOr(_, _)
BitOr(a, b) ==
    IF a = 0 THEN b
    ELSE IF b = 0 THEN a
    ELSE (IF a % 2 = 1 \/ b % 2 = 1 THEN 1 ELSE 0) + 2 * BitOr(a \div 2, b \div 2)

\* victim_addr without the set index.
victim_addr_tag_only(g, tag, index_bits) ==
    ShiftLeft(tag, num_index_bits(g) + num_offset_bits(g))

victim_addr(g, tag, index_bits) ==
    BitOr(ShiftLeft(tag, num_index_bits(g) + num_offset_bits(g)),
          ShiftLeft(index_bits, num_offset_bits(g)))

\* FindWay with the loop stopping one way early.
RECURSIVE FindWay_short(_, _, _, _)
FindWay_short(set, assoc, i, tag_bits) ==
    IF i >= assoc - 1 THEN -1
    ELSE IF set[i].valid /\ set[i].tag = tag_bits THEN i
    ELSE FindWay_short(set, assoc, i + 1, tag_bits)

\* The lookup loop: the first valid way of the set holding the tag, or -1.
RECURSIVE FindWay(_, _, _, _)
FindWay(set, assoc, i, tag_bits) ==
    IF i >= assoc THEN -1
    ELSE IF set[i].valid /\ set[i].tag = tag_bits THEN i
    ELSE FindWay(set, assoc, i + 1, tag_bits)

\* What one access did, for the properties: the return value (hit), the set
\* and the way hit or filled, the probe's result, the victim as it was found,
\* the buffer handed to fill_prefetch (-1: none) and in which mode, and the
\* calls made on the lower level, in order.
Info(address, rw, hit, index_bits, way, prefetchIndex, victim, filled, is_new_stream, calls) ==
    [address |-> address, rw |-> rw, hit |-> hit, index |-> index_bits, way |-> way,
     prefetchIndex |-> prefetchIndex, victim |-> victim, filled |-> filled,
     is_new_stream |-> is_new_stream, calls |-> calls]

NoVictim == [valid |-> FALSE, dirty |-> FALSE, tag |-> 0, lru_counter |-> 0]

\* mark_dirty on reads too.
mark_dirty_always(set, i, rw) == [set EXCEPT ![i].dirty = TRUE]

\* mark_dirty forgotten.
mark_dirty_never(set, i, rw) == set

\* Line 110: a write hit makes the way dirty.
mark_dirty(set, i, rw) == IF rw = "w" THEN [set EXCEPT ![i].dirty = TRUE] ELSE set

\* Lines 108-119: the tag matched in way i.
AccessHit(g, c, lower, address, rw, index_bits, i, prefetchIndex) ==
    LET set   == c.sets[index_bits]
        set1  == mark_dirty(set, i, rw)
        set2  == update_lru(set1, g.assoc, i)
        fill  == IF prefetchIndex # -1
                 THEN fill_prefetch(g, c.stream_buffers, lower, prefetchIndex, address, FALSE)
                 ELSE [stream_buffers |-> c.stream_buffers, prefetches |-> 0, calls |-> <<>>]
    IN  [cache |-> [c EXCEPT !.sets[index_bits] = set2,
                             !.stream_buffers = fill.stream_buffers,
                             !.prefetches = @ + fill.prefetches],
         info |-> Info(address, rw, TRUE, index_bits, i, prefetchIndex, NoVictim,
                       prefetchIndex, FALSE, fill.calls)]

\* needs_writeback with no victim ever written back.
needs_writeback_none(v) == FALSE

\* Line 130: the victim is written back.
needs_writeback(v) == v.valid /\ v.dirty

\* from_lower_level with the probe's result ignored.
from_lower_level_always(prefetchHit) == TRUE

\* Lines 142-146: the block comes from the lower level (the else branch)
\* unless the probe hit.
from_lower_level(prefetchHit) == ~prefetchHit

\* demand_read without the test of lower_level.
demand_read_unguarded(lower, address) == <<Call(address, "r", "demand")>>

\* Lines 147-150: the demand read, issued and counted only with a lower level.
demand_read(lower, address) ==
    IF lower THEN <<Call(address, "r", "demand")>> ELSE <<>>

\* new_stream_index taking the buffer at the front.
new_stream_index_front(stream_buffers) == 0

\* Line 153: a new stream goes to the buffer at the back of the list.
new_stream_index(stream_buffers) == Len(stream_buffers) - 1

\* count_miss with the write misses forgotten.
count_miss_reads_only(c, rw) ==
    IF rw = "r" THEN [c EXCEPT !.read_misses = @ + 1] ELSE c

\* Lines 157-158
count_miss(c, rw) ==
    IF rw = "r" THEN [c EXCEPT !.read_misses = @ + 1]
    ELSE [c EXCEPT !.write_misses = @ + 1]

\* install with the valid bit forgotten.
install_no_valid(v, tag_bits, rw) ==
    [v EXCEPT !.tag = tag_bits, !.dirty = (rw = "w")]

\* Lines 163-165
install(v, tag_bits, rw) ==
    [v EXCEPT !.valid = TRUE, !.tag = tag_bits, !.dirty = (rw = "w")]

\* miss_calls with fill_prefetch called before the demand read.
miss_calls_prefetch_first(wbCalls, demand, fillCalls) == wbCalls \o fillCalls \o demand

\* The order of the calls on the lower level in the miss path: the writeback
\* (line 135), the demand read (line 148), fill_prefetch's reads (144, 153).
miss_calls(wbCalls, demand, fillCalls) == wbCalls \o demand \o fillCalls

\* Lines 123-170: no way matched.
AccessMiss(g, c, lower, address, rw, index_bits, tag_bits, prefetchIndex) ==
    LET set       == c.sets[index_bits]
        victim    == find_victim(set, g.assoc)
        v         == set[victim]
        writeback == needs_writeback(v)
        wbCalls   == IF writeback /\ lower
                     THEN <<Call(victim_addr(g, v.tag, index_bits), "w", "writeback")>>
                     ELSE <<>>
        prefetchHit == prefetchIndex # -1
        demanded  == from_lower_level(prefetchHit)
        demand    == IF demanded THEN demand_read(lower, address) ELSE <<>>
        filled    == IF ~demanded THEN prefetchIndex
                     ELSE IF g.pref_n > 0 THEN new_stream_index(c.stream_buffers) ELSE -1
        fill      == IF filled # -1
                     THEN fill_prefetch(g, c.stream_buffers, lower, filled, address, demanded)
                     ELSE [stream_buffers |-> c.stream_buffers, prefetches |-> 0, calls |-> <<>>]
        set1      == update_lru([set EXCEPT ![victim] = install(v, tag_bits, rw)],
                                g.assoc, victim)
        c1        == [c EXCEPT
                        !.sets[index_bits] = set1,
                        !.stream_buffers = fill.stream_buffers,
                        !.prefetches = @ + fill.prefetches,
                        !.write_backs = IF writeback THEN @ + 1 ELSE @,
                        !.nextLevelDemands = @ + Len(demand)]
    IN  [cache |-> IF demanded THEN count_miss(c1, rw) ELSE c1,
         info |-> Info(address, rw, FALSE, index_bits, victim, prefetchIndex, v,
                       filled, demanded /\ filled # -1,
                       miss_calls(wbCalls, demand, fill.calls))]

\* count_access with every access counted as a read.
count_access_reads_always(c, rw) == [c EXCEPT !.reads = @ + 1]

\* Line 96
count_access(c, rw) ==
    IF rw = "r" THEN [c EXCEPT !.reads = @ + 1] ELSE [c EXCEPT !.writes = @ + 1]

\* bool Cache::access(uint32_t address, char rw) on a cache of geometry g in
\* state c; lower: lower_level is not null.
access(g, c, lower, address, rw) ==
    LET tag_bits   == TagOf(g, address)
        index_bits == IndexOf(g, address)
        c0    == count_access(c, rw)
        probe == IF g.pref_n > 0
                 THEN check_prefetch(g, c0.stream_buffers, address)
                 ELSE [index |-> -1, stream_buffers |-> c0.stream_buffers]
        c1    == [c0 EXCEPT !.stream_buffers = probe.stream_buffers]
        i     == FindWay(c1.sets[index_bits], g.assoc, 0, tag_bits)
    IN  IF i # -1
        THEN AccessHit(g, c1, lower, address, rw, index_bits, i, probe.index)
        ELSE AccessMiss(g, c1, lower, address, rw, index_bits, tag_bits, probe.index)


\* ------------------------------------------------------------------------
\* History of one level.  probeHits: accesses whose check_prefetch found the
\* block; streamFed: those of them that missed in the cache; clock: accesses
\* made; stamps: for each stream buffer, in list order, the clock of the
\* access that last handed it to fill_prefetch (0: never);
\* lineAddr: for each way, the address of the access that installed its line;
\* written: for each way, whether a write access was made to its line since
\* it was filled, the filling access included.

NewObs(g) ==
    [probeHits |-> 0, streamFed |-> 0, clock |-> 0,
     stamps |-> [k \in 1..g.pref_n |-> 0],
     lineAddr |-> [i \in 0..(num_sets(g) - 1) |-> [j \in 0..(g.assoc - 1) |-> -1]],
     written |-> [i \in 0..(num_sets(g) - 1) |-> [j \in 0..(g.assoc - 1) |-> FALSE]]]

\* The history of the default-constructed Cache: no sets, no buffers.
NoObs ==
    [probeHits |-> 0, streamFed |-> 0, clock |-> 0, stamps |-> <<>>, lineAddr |-> <<>>,
     written |-> <<>>]

Observe(o, info) ==
    [probeHits |-> IF info.prefetchIndex # -1 THEN o.probeHits + 1 ELSE o.probeHits,
     streamFed |-> IF ~info.hit /\ info.prefetchIndex # -1
                   THEN o.streamFed + 1 ELSE o.streamFed,
     clock |-> o.clock + 1,
     stamps |-> IF info.filled # -1
                THEN MoveToFront(o.stamps, info.filled, o.clock + 1)
                ELSE o.stamps,
     lineAddr |-> IF info.hit THEN o.lineAddr
                  ELSE [o.lineAddr EXCEPT ![info.index][info.way] = info.address],
     written |-> IF info.hit
                 THEN [o.written EXCEPT ![info.index][info.way] = @ \/ info.rw = "w"]
                 ELSE [o.written EXCEPT ![info.index][info.way] = (info.rw = "w")]]

\* The calls L1 made on its lower level, run in order on L2 (which has no
\* lower level of its own): L2 and its history after each call.
RECURSIVE RunCalls(_, _, _, _, _)
RunCalls(g, c, o, calls, done) ==
    IF calls = <<>> THEN done
    ELSE LET r  == access(g, c, FALSE, Head(calls).address, Head(calls).rw)
             o1 == Observe(o, r.info)
         IN  RunCalls(g, r.cache, o1, Tail(calls),
                      Append(done, [cache |-> r.cache, obs |-> o1, info |-> r.info]))

NoInfo == Info(0, "none", FALSE, 0, 0, -1, NoVictim, -1, FALSE, <<>>)

\* ------------------------------------------------------------------------
\* The system

Init ==
    /\ cfg \in Configs
    /\ L1 = NewCache(cfg.L1)
    /\ L2 = IF cfg.hasL2 THEN NewCache(cfg.L2) ELSE DefaultCache
    /\ obs = <<NewObs(cfg.L1), IF cfg.hasL2 THEN NewObs(cfg.L2) ELSE NoObs>>
    /\ trace = <<>>
    /\ last = NoInfo
    /\ steps = <<>>
    /\ unsaved = {}

\* The blocks of the writes among the calls.
WrittenBelow(g, calls) ==
    {BlockOf(g, calls[k].address) : k \in {n \in 1..Len(calls) : calls[n].rw = "w"}}

\* The driver's L1.access(address, rw), lower-level calls included.
Access(address, rw) ==
    /\ Len(trace) < MaxAccesses
    /\ \E r \in {access(cfg.L1, L1, cfg.hasL2, address, rw)} :
       \E down \in {RunCalls(cfg.L2, L2, obs[2], r.info.calls, <<>>)} :
           /\ L1' = r.cache
           /\ last' = r.info
           /\ steps' = down
           /\ L2' = IF down = <<>> THEN L2 ELSE down[Len(down)].cache
           /\ obs' = <<Observe(obs[1], r.info),
                       IF down = <<>> THEN obs[2] ELSE down[Len(down)].obs>>
           /\ unsaved' = (unsaved \ WrittenBelow(cfg.L1, r.info.calls))
                             \cup (IF rw = "w" THEN {BlockOf(cfg.L1, address)} ELSE {})
    /\ trace' = Append(trace, [address |-> address, rw |-> rw])
    /\ UNCHANGED cfg

Next == \E address \in Addresses, rw \in Ops : Access(address, rw)

Spec == Init /\ [][Next]_vars


\* ------------------------------------------------------------------------
\* The caches a property speaks of: L1 as the driver's access left it, and
\* L2 as each lower-level call of that access left it.  A view is a cache
\* with its geometry, its history and whether it has a lower level.

View(g, c, o, lower) == [g |-> g, c |-> c, o |-> o, lower |-> lower]

L1View == View(cfg.L1, L1, obs[1], cfg.hasL2)

L2Views ==
    IF cfg.hasL2
    THEN {View(cfg.L2, L2, obs[2], FALSE)}
         \cup {View(cfg.L2, steps[k].cache, steps[k].obs, FALSE) : k \in 1..Len(steps)}
    ELSE {}

Views == {L1View} \cup L2Views

Misses(c) == c.read_misses + c.write_misses

\* ------------------------------------------------------------------------
\* C1.  In every reachable state writebacks <= read_misses + write_misses.
\* As stated it fails: an access that misses in the cache and hits a stream
\* buffer evicts (and writes back) without being counted as a miss.
C1_Original == \A v \in Views : v.c.write_backs <= Misses(v.c)

\* C1 (amended).  writebacks <= read_misses + write_misses + the number of
\* accesses that missed in the cache and were served from a stream buffer;
\* without stream buffers (pref_n = 0) writebacks <= read_misses +
\* write_misses.
C1_Writebacks ==
    \A v \in Views :
        /\ v.c.write_backs <= Misses(v.c) + v.o.streamFed
        /\ v.g.pref_n = 0 => v.c.write_backs <= Misses(v.c)

\* A cache whose writebacks outnumber its counted misses.
C1_Witness == \E v \in Views : v.c.write_backs > Misses(v.c)

\* ------------------------------------------------------------------------
\* C2.  nextLevelDemands <= read_misses + write_misses, with equality iff no
\* stream-buffer probe ever hit.  As stated it fails both ways: a last-level
\* cache counts misses and no demands without any probe hit, and a cache with
\* a lower level keeps the two equal whatever the probes do.
C2_Original ==
    \A v \in Views :
        /\ v.c.nextLevelDemands <= Misses(v.c)
        /\ (v.c.nextLevelDemands = Misses(v.c)) <=> (v.o.probeHits = 0)

\* C2 (amended).  nextLevelDemands <= read_misses + write_misses; a cache
\* with a lower level has nextLevelDemands = read_misses + write_misses
\* whether or not a probe hit (a probe hit on a cache miss suppresses the
\* demand and the miss count alike), and a cache without a lower level has
\* nextLevelDemands = 0.
C2_Demands ==
    \A v \in Views :
        /\ v.c.nextLevelDemands <= Misses(v.c)
        /\ v.lower => v.c.nextLevelDemands = Misses(v.c)
        /\ ~v.lower => v.c.nextLevelDemands = 0

\* A cache with a lower level that has been served from a stream buffer on a
\* cache miss, and a last-level cache that has missed.
C2_Witness ==
    /\ \E v \in Views : v.lower /\ v.o.streamFed > 0 /\ Misses(v.c) > 1
    /\ \E v \in Views : ~v.lower /\ Misses(v.c) > 1


\* ------------------------------------------------------------------------
\* The blocks of a stream buffer read from head with wrap-around.
Logical(it, pref_m) == [i \in 1..pref_m |-> it.blocks[(it.head + i - 1) % pref_m]]

\* The run of scenario 3: blocksize 16, L1 64 bytes direct-mapped, one stream
\* buffer of 4 blocks, no lower level; r 0x0, r 0x10, r 0x20, r 0x30.
C3Config == [L1 |-> Geometry(16, 64, 1, 1, 4), hasL2 |-> FALSE, L2 |-> Geometry(0, 0, 0, 0, 0)]

C3Trace == <<[address |-> 0, rw |-> "r"], [address |-> 16, rw |-> "r"],
             [address |-> 32, rw |-> "r"], [address |-> 48, rw |-> "r"]>>

C3After(k) == cfg = C3Config /\ trace = SubSeq(C3Trace, 1, k)

\* C3.  The run ends with reads = 4, read_misses = 1, prefetches = 7 and
\* nextLevelDemands = 1.  As stated it fails: there is no lower level, so no
\* demand read is issued or counted.
C3_Original ==
    C3After(4) => /\ L1.reads = 4
                  /\ L1.read_misses = 1
                  /\ L1.prefetches = 7
                  /\ L1.nextLevelDemands = 1

\* C3 (amended).  The run ends with reads = 4, read_misses = 1, prefetches = 7
\* and nextLevelDemands = 0: the first access misses and allocates the stream
\* of blocks 1..4, each of the next three misses in the cache, hits the stream
\* buffer and refills exactly one block.
C3_Scenario ==
    \A k \in 1..4 :
        C3After(k) =>
            /\ L1.reads = k
            /\ L1.read_misses = 1
            /\ L1.write_misses = 0
            /\ L1.prefetches = 3 + k
            /\ L1.nextLevelDemands = 0
            /\ ~last.hit
            /\ last.prefetchIndex = (IF k = 1 THEN -1 ELSE 0)
            /\ Logical(L1.stream_buffers[1], 4) = <<k, k + 1, k + 2, k + 3>>

\* The end of the run.
C3_Witness == C3After(4) /\ L1.prefetches = 7

\* ------------------------------------------------------------------------
\* C4.  In every set of every cache the LRU counters of the assoc ways are a
\* permutation of 0..assoc-1, after every hit and every install.
C4_LruPermutation ==
    \A v \in Views : \A i \in DOMAIN v.c.sets :
        /\ {v.c.sets[i][j].lru_counter : j \in 0..(v.g.assoc - 1)} = 0..(v.g.assoc - 1)
        /\ \A j1, j2 \in 0..(v.g.assoc - 1) :
              v.c.sets[i][j1].lru_counter = v.c.sets[i][j2].lru_counter => j1 = j2

\* A hit in a full 4-way set whose ways are no longer in their initial order.
C4_Witness ==
    \E k \in 1..Len(steps) :
        /\ cfg.L2.assoc = 4
        /\ steps[k].info.hit
        /\ \A j \in 0..3 : steps[k].cache.sets[0][j].valid
        /\ \E j \in 0..3 : steps[k].cache.sets[0][j].lru_counter # j

\* ------------------------------------------------------------------------
\* C5.  No set holds two valid ways with the same tag.
C5_UniqueTags ==
    \A v \in Views : \A i \in DOMAIN v.c.sets :
        \A j1, j2 \in 0..(v.g.assoc - 1) :
            /\ j1 # j2
            /\ v.c.sets[i][j1].valid
            /\ v.c.sets[i][j2].valid
            => v.c.sets[i][j1].tag # v.c.sets[i][j2].tag

\* A block accessed again while it is resident in a full 2-way set, in the
\* way the lookup reaches last.
C5_Witness ==
    /\ cfg.L1.assoc = 2
    /\ last.hit
    /\ last.way = 1
    /\ \A j \in 0..1 : L1.sets[last.index][j].valid

\* ------------------------------------------------------------------------
\* C6.  Every valid stream buffer holds pref_m consecutive blocks in logical
\* order: blocks[(head + i) mod pref_m] = base + i.
C6_StreamConsecutive ==
    \A v \in Views : \A k \in 1..Len(v.c.stream_buffers) :
        LET it == v.c.stream_buffers[k]
        IN  it.valid =>
              /\ it.head \in 0..(v.g.pref_m - 1)
              /\ \A i \in 0..(v.g.pref_m - 1) :
                    it.blocks[(it.head + i) % v.g.pref_m] = it.blocks[it.head] + i

\* A buffer of 4 blocks whose head has moved off slot 0 after a probe hit
\* and a refill, so that its blocks wrap around the end of the array.
C6_Witness ==
    /\ cfg.L1.pref_m = 4
    /\ last.prefetchIndex = 0
    /\ L1.stream_buffers[1].valid
    /\ L1.stream_buffers[1].head # 0
    /\ L1.stream_buffers[1].blocks[0] > L1.stream_buffers[1].blocks[3]

\* ------------------------------------------------------------------------
\* The accesses of one step: the driver's access on L1 and the calls it made
\* on L2, each with the cache and its history before and after.

Transition(g, lower, before, after, obefore, info) ==
    [g |-> g, lower |-> lower, before |-> before, after |-> after,
     obefore |-> obefore, info |-> info]

L1Transition == Transition(cfg.L1, cfg.hasL2, L1, L1', obs[1], last')

L2Transitions ==
    { Transition(cfg.L2, FALSE,
                 IF k = 1 THEN L2 ELSE steps'[k - 1].cache,
                 steps'[k].cache,
                 IF k = 1 THEN obs[2] ELSE steps'[k - 1].obs,
                 steps'[k].info) : k \in 1..Len(steps') }

Transitions == {L1Transition} \cup L2Transitions

Sites(calls, site) == {i \in 1..Len(calls) : calls[i].site = site}

\* ------------------------------------------------------------------------
\* C7.  The calls one access makes on the lower level come in this order: at
\* most one write (the writeback), then at most one demand read of the
\* accessed address, then the prefetch reads, in strictly ascending block
\* order; nothing else follows a prefetch read.
C7_CallOrder ==
    LET calls == last.calls
        wb    == Sites(calls, "writeback")
        dm    == Sites(calls, "demand")
        pf    == Sites(calls, "prefetch")
    IN  /\ Cardinality(wb) <= 1
        /\ Cardinality(dm) <= 1
        /\ \A i \in wb : calls[i].rw = "w" /\ i = 1
        /\ \A i \in dm : /\ calls[i].rw = "r"
                         /\ calls[i].address = last.address
                         /\ i = Cardinality(wb) + 1
        /\ \A i \in pf : calls[i].rw = "r" /\ i > Cardinality(wb) + Cardinality(dm)
        /\ \A i, j \in pf :
              i < j => BlockOf(cfg.L1, calls[i].address) < BlockOf(cfg.L1, calls[j].address)

\* An access that wrote back, demanded and prefetched two blocks.
C7_Witness ==
    /\ Len(last.calls) = 4
    /\ last.calls[1].site = "writeback"
    /\ last.calls[2].site = "demand"
    /\ last.calls[4].site = "prefetch"

\* ------------------------------------------------------------------------
\* C8.  An access that misses in the cache and hits a stream buffer issues no
\* demand read, leaves read_misses, write_misses and nextLevelDemands as they
\* were, increments reads or writes, writes back the victim iff it is valid
\* and dirty, installs the line with dirty = (op is write) as the set's MRU
\* way, and refills the hit buffer in CONTINUE mode.
C8_Step(t) ==
    LET i     == t.info
        b     == t.before
        a     == t.after
        m     == t.g.pref_m
        dirty == i.victim.valid /\ i.victim.dirty
    IN  (~i.hit /\ i.prefetchIndex # -1) =>
           /\ Sites(i.calls, "demand") = {}
           /\ \A k \in 1..Len(i.calls) :
                 i.calls[k].rw = "r" => BlockOf(t.g, i.calls[k].address) > BlockOf(t.g, i.address)
           /\ a.read_misses = b.read_misses
           /\ a.write_misses = b.write_misses
           /\ a.nextLevelDemands = b.nextLevelDemands
           /\ a.reads = b.reads + (IF i.rw = "r" THEN 1 ELSE 0)
           /\ a.writes = b.writes + (IF i.rw = "w" THEN 1 ELSE 0)
           /\ a.write_backs = b.write_backs + (IF dirty THEN 1 ELSE 0)
           /\ {k \in 1..Len(i.calls) : i.calls[k].rw = "w"}
                 = (IF dirty /\ t.lower THEN {1} ELSE {})
           /\ a.sets[i.index][i.way] =
                 [valid |-> TRUE, dirty |-> (i.rw = "w"),
                  tag |-> TagOf(t.g, i.address), lru_counter |-> 0]
           /\ i.filled = i.prefetchIndex
           /\ ~i.is_new_stream
           /\ a.stream_buffers[1].valid
           /\ Logical(a.stream_buffers[1], m)
                 = [k \in 1..m |-> BlockOf(t.g, i.address) + k]
           /\ a.prefetches - b.prefetches \in 1..m
           /\ t.lower => Cardinality(Sites(i.calls, "prefetch")) = a.prefetches - b.prefetches

C8_PrefetchHitMiss == [][\A t \in Transitions : C8_Step(t)]_vars

\* A write that missed in the cache of a level with a lower level, hit its
\* stream buffer and evicted a dirty line.
C8_Witness ==
    /\ cfg.hasL2
    /\ ~last.hit
    /\ last.prefetchIndex # -1
    /\ last.rw = "w"
    /\ last.victim.valid /\ last.victim.dirty

\* ------------------------------------------------------------------------
\* C9.  The eviction of a valid dirty line from a cache with a lower level
\* issues exactly one lower_level.access(evicted_addr, write); evicted_addr is
\* the address of the access that installed the line with its offset bits
\* cleared, and decodes to the victim's tag and set index; the upper level's
\* writebacks and the lower level's writes each go up by exactly 1.
C9_Step(t) ==
    LET i  == t.info
        w  == {k \in 1..Len(i.calls) : i.calls[k].rw = "w"}
        la == t.obefore.lineAddr[i.index][i.way]
    IN  (t.lower /\ ~i.hit /\ i.victim.valid /\ i.victim.dirty) =>
           /\ w = {1}
           /\ LET evicted_addr == i.calls[1].address
              IN  /\ evicted_addr = la - (la % t.g.blocksize)
                  /\ evicted_addr % t.g.blocksize = 0
                  /\ TagOf(t.g, evicted_addr) = i.victim.tag
                  /\ IndexOf(t.g, evicted_addr) = i.index
                  /\ evicted_addr =
                        (i.victim.tag * num_sets(t.g) + i.index) * t.g.blocksize
           /\ t.after.write_backs = t.before.write_backs + 1
           /\ L2'.writes = L2.writes + 1

C9_Writeback == [][C9_Step(L1Transition)]_vars

\* w 0x14 then r 0x30 on the direct-mapped L1 of two sets: block 1 is evicted
\* from set 1 and written back at 0x10.
C9_Witness ==
    /\ cfg.hasL2
    /\ trace = <<[address |-> 20, rw |-> "w"], [address |-> 48, rw |-> "r"]>>
    /\ last.index = 1
    /\ last.calls[1] = Call(16, "w", "writeback")
    /\ L1.write_backs = 1
    /\ L2.writes = 1

\* ------------------------------------------------------------------------
\* C10.  The stream-buffer list is ordered by recency of refill, buffers never
\* refilled (the invalid ones) last; a cache miss without a prefetch hit
\* overwrites the buffer at the back, the least recently refilled one, and
\* moves it to the front.  With pref_n = 2, after accesses to blocks 0, 100
\* and 1 the 0-series buffer is at the front, and the next miss without a
\* prefetch hit replaces the 100-series buffer.
C10_Ordered(c, o) ==
    \A i \in 1..Len(c.stream_buffers) :
        /\ c.stream_buffers[i].valid <=> o.stamps[i] > 0
        /\ \A j \in 1..Len(c.stream_buffers) :
              i < j => \/ o.stamps[i] > o.stamps[j]
                       \/ (o.stamps[i] = 0 /\ o.stamps[j] = 0)

C10_Step(t) ==
    LET i == t.info
        n == t.g.pref_n
        m == t.g.pref_m
    IN  (~i.hit /\ i.prefetchIndex = -1 /\ n > 0) =>
           /\ i.filled = n - 1
           /\ i.is_new_stream
           /\ \A k \in 1..n : t.obefore.stamps[n] <= t.obefore.stamps[k]
           /\ Logical(t.after.stream_buffers[1], m)
                 = [k \in 1..m |-> BlockOf(t.g, i.address) + k]
           /\ \A k \in 2..n : t.after.stream_buffers[k] = t.before.stream_buffers[k - 1]

C10Blocks == [k \in 1..Len(trace) |-> BlockOf(cfg.L1, trace[k].address)]

C10_Scenario ==
    (cfg.L1.pref_n = 2 /\ cfg.L1.pref_m = 2 /\ Len(trace) >= 3
        /\ SubSeq(C10Blocks, 1, 3) = <<0, 100, 1>>) =>
       /\ Len(trace) = 3 =>
             /\ Logical(L1.stream_buffers[1], 2) = <<2, 3>>
             /\ Logical(L1.stream_buffers[2], 2) = <<101, 102>>
       /\ (Len(trace) = 4 /\ ~last.hit /\ last.prefetchIndex = -1) =>
             /\ Logical(L1.stream_buffers[2], 2) = <<2, 3>>
             /\ \A k \in 1..2 : \A j \in 0..1 :
                   L1.stream_buffers[k].blocks[j] \notin {101, 102}

C10_StreamLru ==
    [][ /\ \A v \in Views : C10_Ordered(v.c, v.o)
        /\ \A v \in Views' : C10_Ordered(v.c, v.o)
        /\ \A t \in Transitions : C10_Step(t)
        /\ C10_Scenario' ]_vars

\* Blocks 0, 100, 1 and then a miss without a prefetch hit, with two buffers.
C10_Witness ==
    /\ cfg.L1.pref_n = 2
    /\ Len(trace) = 4
    /\ SubSeq(C10Blocks, 1, 3) = <<0, 100, 1>>
    /\ ~last.hit
    /\ last.prefetchIndex = -1

\* ------------------------------------------------------------------------
\* C11.  With an L1 without stream buffers over an L2 that has them, every L1
\* miss issues exactly one demand read to L2 (L1.nextLevelDemands and L2.reads
\* each go up by 1), also when the block is in an L2 stream buffer; a read
\* that misses in L2's cache and hits L2's stream buffer leaves L2.read_misses
\* as it was.  In every state L2.reads = L1.nextLevelDemands =
\* L1.read_misses + L1.write_misses and L2.writes = L1.writebacks.
C11Config == cfg.hasL2 /\ cfg.L1.pref_n = 0 /\ cfg.L2.pref_n > 0

C11_Counters ==
    /\ L2.reads = L1.nextLevelDemands
    /\ L1.nextLevelDemands = Misses(L1)
    /\ L2.writes = L1.write_backs

C11_Step ==
    /\ ~last'.hit =>
          /\ Cardinality(Sites(last'.calls, "demand")) = 1
          /\ Sites(last'.calls, "prefetch") = {}
          /\ L1'.nextLevelDemands = L1.nextLevelDemands + 1
          /\ L2'.reads = L2.reads + 1
    /\ last'.hit => last'.calls = <<>> /\ L2' = L2
    /\ \A t \in L2Transitions :
          (t.info.rw = "r" /\ ~t.info.hit /\ t.info.prefetchIndex # -1) =>
             /\ t.after.read_misses = t.before.read_misses
             /\ t.after.reads = t.before.reads + 1

C11_DemandReads ==
    [][C11Config => (C11_Counters /\ C11_Step /\ C11_Counters')]_vars

\* An L1 miss whose demand read missed in L2's cache and hit L2's stream
\* buffer: L2 has then fewer read misses than reads.
C11_Witness ==
    /\ C11Config
    /\ ~last.hit
    /\ \E k \in 1..Len(steps) :
          /\ last.calls[k].site = "demand"
          /\ ~steps[k].info.hit
          /\ steps[k].info.prefetchIndex # -1
    /\ L2.read_misses < L2.reads
    /\ L1.write_backs > 0

\* ------------------------------------------------------------------------
\* printStats(L1, L2)

\* memory_traffic with "L2 exists" tested on L2's writes.
memory_traffic_by_writes(l1, l2) ==
    IF l2.writes = 0
    THEN l1.read_misses + l1.write_misses + l1.write_backs + l1.prefetches
    ELSE l2.read_misses + l2.write_misses + l2.write_backs + l2.prefetches

\* Lines 329-336: line "q. memory traffic"; L2 is taken to exist when it has
\* served a read.
memory_traffic(l1, l2) ==
    IF l2.reads = 0
    THEN l1.read_misses + l1.write_misses + l1.write_backs + l1.prefetches
    ELSE l2.read_misses + l2.write_misses + l2.write_backs + l2.prefetches

\* What a cache exchanges with the level below it.
Traffic(c) == Misses(c) + c.write_backs + c.prefetches

\* ------------------------------------------------------------------------
\* C12.  The memory traffic printStats computes is read_misses + write_misses
\* + writebacks + prefetches of the last level: of L2 when the hierarchy has
\* an L2, of L1 when it has none, although the code tests L2.reads = 0.
C12_MemoryTraffic ==
    memory_traffic(L1, L2) = (IF cfg.hasL2 THEN Traffic(L2) ELSE Traffic(L1))

\* A hierarchy with an L2 whose traffic differs from L1's, L2 having served
\* reads and no write.
C12_Witness ==
    /\ cfg.hasL2
    /\ cfg.L1.pref_n = 0
    /\ L2.reads > 0
    /\ L2.writes = 0
    /\ Traffic(L1) # Traffic(L2)
    /\ memory_traffic(L1, L2) = Traffic(L2)

\* ------------------------------------------------------------------------
\* Where a block is: in a valid way of its set, in a valid stream buffer.

Resident(g, c, address) ==
    \E j \in 0..(g.assoc - 1) :
        /\ c.sets[IndexOf(g, address)][j].valid
        /\ c.sets[IndexOf(g, address)][j].tag = TagOf(g, address)

InStream(g, c, address) ==
    \E k \in 1..Len(c.stream_buffers) :
        /\ c.stream_buffers[k].valid
        /\ \E i \in 0..(g.pref_m - 1) :
              c.stream_buffers[k].blocks[i] = BlockOf(g, address)

\* ------------------------------------------------------------------------
\* C13.  When the block of A is neither resident in the cache nor in a valid
\* stream buffer, two consecutive reads of A increase reads by 2 and
\* read_misses by 1: the first returns miss, the second returns hit, and A's
\* tag is then valid in its set.
\* The first read, on any level: the block is in neither place exactly when
\* the access misses without a prefetch hit.
C13_First(t) ==
    LET i     == t.info
        fresh == ~Resident(t.g, t.before, i.address) /\ ~InStream(t.g, t.before, i.address)
    IN  /\ fresh <=> (~i.hit /\ i.prefetchIndex = -1)
        /\ (fresh /\ i.rw = "r") =>
              /\ t.after.reads = t.before.reads + 1
              /\ t.after.read_misses = t.before.read_misses + 1
              /\ Resident(t.g, t.after, i.address)
              /\ ~InStream(t.g, t.after, i.address)

\* The second read, by the driver, right after the first.
C13_Second ==
    (/\ last.rw = "r" /\ ~last.hit /\ last.prefetchIndex = -1
     /\ last'.rw = "r" /\ last'.address = last.address) =>
        /\ last'.hit
        /\ L1'.reads = L1.reads + 1
        /\ L1'.read_misses = L1.read_misses
        /\ Resident(cfg.L1, L1', last.address)

C13_ReadTwice == [][(\A t \in Transitions : C13_First(t)) /\ C13_Second]_vars

\* Two accesses elsewhere, then two reads of 0x64f: a miss, then a hit.
C13_Witness ==
    /\ Len(trace) = 4
    /\ trace[1].address # 1615
    /\ trace[2].address # 1615
    /\ trace[3] = [address |-> 1615, rw |-> "r"]
    /\ trace[4] = [address |-> 1615, rw |-> "r"]
    /\ last.hit
    /\ L1.reads >= 2
    /\ Resident(cfg.L1, L1, 1615)

\* ------------------------------------------------------------------------
\* Cache::print_stream_buffers: nothing when pref_n = 0, else the header and
\* one line per valid buffer, its blocks from head on.

IsValid(b) == b.valid

print_stream_buffers(g, c) ==
    IF g.pref_n = 0 THEN [header |-> FALSE, lines |-> <<>>]
    ELSE LET valids == SelectSeq(c.stream_buffers, IsValid)
         IN  [header |-> TRUE,
              lines |-> [k \in 1..Len(valids) |-> Logical(valids[k], g.pref_m)]]

\* ------------------------------------------------------------------------
\* C14.  A cache with pref_n = 0 has prefetches = 0 in every state, no stream
\* buffer exists or becomes valid (print_stream_buffers prints nothing), and
\* it issues no prefetch read: each call it makes on the lower level is the
\* writeback or the demand read of the accessed address.
C14_Cache(v) ==
    v.g.pref_n = 0 =>
       /\ v.c.prefetches = 0
       /\ v.c.stream_buffers = <<>>
       /\ print_stream_buffers(v.g, v.c) = [header |-> FALSE, lines |-> <<>>]

C14_Access(g, info) ==
    g.pref_n = 0 =>
       /\ info.prefetchIndex = -1
       /\ info.filled = -1
       /\ \A k \in 1..Len(info.calls) :
             \/ info.calls[k].site = "writeback" /\ info.calls[k].rw = "w"
             \/ /\ info.calls[k].site = "demand"
                /\ info.calls[k] = Call(info.address, "r", "demand")

C14_NoPrefetcher ==
    /\ \A v \in Views : C14_Cache(v)
    /\ C14_Access(cfg.L1, last)
    /\ cfg.hasL2 => \A k \in 1..Len(steps) : C14_Access(cfg.L2, steps[k].info)

\* A miss of the L1 without stream buffers that wrote back and demanded.
C14_Witness ==
    /\ cfg.L1.pref_n = 0
    /\ ~last.hit
    /\ Len(last.calls) = 2
    /\ Misses(L1) >= 2
    /\ L1.prefetches = 0

\* ------------------------------------------------------------------------
\* C15.  An access that hits in the cache and misses every stream buffer
\* changes only reads or writes, the hit way's dirty bit (on a write) and the
\* LRU ranks of the hit set.  The stream buffers, read_misses, write_misses,
\* writebacks, prefetches, nextLevelDemands, every tag and valid bit and every
\* other set stay as they were, and no call is made on the lower level.
C15_Step(t) ==
    LET i == t.info
        b == t.before
        a == t.after
    IN  (i.hit /\ i.prefetchIndex = -1) =>
           /\ i.calls = <<>>
           /\ a.stream_buffers = b.stream_buffers
           /\ a.read_misses = b.read_misses
           /\ a.write_misses = b.write_misses
           /\ a.write_backs = b.write_backs
           /\ a.prefetches = b.prefetches
           /\ a.nextLevelDemands = b.nextLevelDemands
           /\ a.reads = b.reads + (IF i.rw = "r" THEN 1 ELSE 0)
           /\ a.writes = b.writes + (IF i.rw = "w" THEN 1 ELSE 0)
           /\ \A s \in DOMAIN b.sets : s # i.index => a.sets[s] = b.sets[s]
           /\ \A j \in 0..(t.g.assoc - 1) :
                 /\ a.sets[i.index][j].valid = b.sets[i.index][j].valid
                 /\ a.sets[i.index][j].tag = b.sets[i.index][j].tag
                 /\ a.sets[i.index][j].dirty =
                       (b.sets[i.index][j].dirty \/ (j = i.way /\ i.rw = "w"))
           /\ a.sets[i.index][i.way].lru_counter = 0

C15_HitFrame == [][\A t \in Transitions : C15_Step(t)]_vars

\* A read hit on a clean way of a 2-way cache whose stream buffer is valid
\* and does not hold the block.
C15_Witness ==
    /\ cfg.L1.assoc = 2
    /\ cfg.L1.pref_n > 0
    /\ L1.stream_buffers[1].valid
    /\ last.hit
    /\ last.prefetchIndex = -1
    /\ last.rw = "r"
    /\ last.way = 1
    /\ ~L1.sets[last.index][last.way].dirty

\* ------------------------------------------------------------------------
\* C16.  In every set the valid ways hold the LRU ranks 0..k-1 and the
\* invalid ways the ranks k..assoc-1 (k the number of valid ways).  Hence
\* find_victim never selects a valid way while the set has an invalid one,
\* and nothing is written back from a set before all its ways are valid.
ValidWays(set) == {j \in DOMAIN set : set[j].valid}

C16_Ranks(v) ==
    \A s \in DOMAIN v.c.sets :
        LET set == v.c.sets[s]
            k   == Cardinality(ValidWays(set))
        IN  /\ \A j \in DOMAIN set : set[j].valid <=> set[j].lru_counter < k
            /\ k < v.g.assoc => ~set[find_victim(set, v.g.assoc)].valid

C16_Step(t) ==
    LET i   == t.info
        set == t.before.sets[i.index]
    IN  (~i.hit /\ ValidWays(set) # DOMAIN set) =>
           /\ ~i.victim.valid
           /\ ~set[i.way].valid
           /\ t.after.write_backs = t.before.write_backs
           /\ Sites(i.calls, "writeback") = {}
           /\ ValidWays(t.after.sets[i.index]) = ValidWays(set) \cup {i.way}

C16_InvalidFirst ==
    [][ /\ \A v \in Views : C16_Ranks(v)
        /\ \A v \in Views' : C16_Ranks(v)
        /\ \A t \in Transitions : C16_Step(t) ]_vars

\* The 2-way L1 after a miss, a write hit and a second miss: the second miss
\* took the invalid way although the valid one was dirty, and wrote nothing
\* back.
C16_Witness ==
    /\ cfg.L1.assoc = 2
    /\ Len(trace) = 3
    /\ ~last.hit
    /\ ~last.victim.valid
    /\ ValidWays(L1.sets[last.index]) = {0, 1}
    /\ \E j \in {0, 1} : L1.sets[last.index][j].dirty /\ j # last.way
    /\ L1.write_backs = 0

\* ------------------------------------------------------------------------
\* C17.  With a lower level present no written data is lost: after every
\* access, each block the driver wrote is valid and dirty in L1, or L1 issued
\* a write of that block to the lower level after the driver's most recent
\* write to it.
DirtyIn(g, c, block) ==
    \E j \in 0..(g.assoc - 1) :
        LET way == c.sets[block % num_sets(g)][j]
        IN  way.valid /\ way.dirty /\ way.tag = block \div num_sets(g)

C17_NoLostWrite ==
    cfg.hasL2 => \A block \in unsaved : DirtyIn(cfg.L1, L1, block)

\* Three writes and a fourth access: two lines were written back to L2, one
\* written block is no longer owed to L2 and another is still dirty in L1.
C17_Witness ==
    /\ cfg.hasL2
    /\ Len(trace) = 4
    /\ \A k \in 1..3 : trace[k].rw = "w"
    /\ L1.write_backs >= 2
    /\ L2.writes >= 2
    /\ unsaved # {}
    /\ \E k \in 1..3 : BlockOf(cfg.L1, trace[k].address) \notin unsaved

\* ------------------------------------------------------------------------
\* C18.  On a probe hit at the block k positions after the head in logical
\* order (0 <= k < pref_m), the refill rewrites exactly the k+1 stale slots,
\* increments prefetches by k+1 and, with a lower level, issues exactly k+1
\* reads to it, for the blocks hit+pref_m-k .. hit+pref_m in this order; the
\* slots already holding the expected block are neither rewritten nor
\* counted.
\* The 0-based position of a block in a sequence, -1 when absent.
PositionOf(seq, x) ==
    IF \E p \in 1..Len(seq) : seq[p] = x
    THEN (CHOOSE p \in 1..Len(seq) : seq[p] = x) - 1
    ELSE -1

C18_Step(t) ==
    LET i     == t.info
        m     == t.g.pref_m
        hit   == BlockOf(t.g, i.address)
        old   == t.before.stream_buffers[i.prefetchIndex + 1]
        new   == t.after.stream_buffers[1]
        k     == PositionOf(Logical(old, m), hit)
        fresh == {s \in 0..(m - 1) : new.blocks[s] # old.blocks[s]}
        pf    == Sites(i.calls, "prefetch")
        first == IF pf = {} THEN 0 ELSE CHOOSE n \in pf : \A n2 \in pf : n <= n2
    IN  i.prefetchIndex # -1 =>
           /\ k \in 0..(m - 1)
           /\ t.after.prefetches = t.before.prefetches + k + 1
           /\ Cardinality(fresh) = k + 1
           /\ {new.blocks[s] : s \in fresh} = (hit + m - k)..(hit + m)
           /\ {new.blocks[s] : s \in (0..(m - 1)) \ fresh} = (hit + 1)..(hit + m - k - 1)
           /\ Cardinality(pf) = (IF t.lower THEN k + 1 ELSE 0)
           /\ \A n \in pf :
                 i.calls[n] = Call((hit + m - k + (n - first)) * t.g.blocksize, "r", "prefetch")

C18_Refill == [][\A t \in Transitions : C18_Step(t)]_vars

\* A probe hit two positions after the head of the buffer of four blocks:
\* three slots are refilled, one is kept.
C18_Witness ==
    /\ cfg.L1.pref_m = 4
    /\ last.prefetchIndex = 0
    /\ Len(trace) = 2
    /\ L1.prefetches = 4 + 3
    /\ Logical(L1.stream_buffers[1], 4)
          = [n \in 1..4 |-> BlockOf(cfg.L1, last.address) + n]

\* ------------------------------------------------------------------------
\* C19.  A valid way is dirty iff at least one write access was made to its
\* block since the line was last filled, the filling access counting when it
\* is a write; a read hit changes no dirty bit.
C19_Dirty(v) ==
    \A s \in DOMAIN v.c.sets : \A j \in DOMAIN v.c.sets[s] :
        /\ v.c.sets[s][j].valid => (v.c.sets[s][j].dirty <=> v.o.written[s][j])
        /\ ~v.c.sets[s][j].valid => ~v.c.sets[s][j].dirty

C19_Step(t) ==
    (t.info.hit /\ t.info.rw = "r") =>
        \A s \in DOMAIN t.before.sets : \A j \in DOMAIN t.before.sets[s] :
            t.after.sets[s][j].dirty = t.before.sets[s][j].dirty

C19_DirtyIffWritten ==
    [][ /\ \A v \in Views : C19_Dirty(v)
        /\ \A v \in Views' : C19_Dirty(v)
        /\ \A t \in Transitions : C19_Step(t) ]_vars

\* A read hit on a line that a write hit made dirty after a read filled it,
\* next to a valid clean line.
C19_Witness ==
    /\ Len(trace) = 4
    /\ trace[1].rw = "r"
    /\ last.hit
    /\ last.rw = "r"
    /\ BlockOf(cfg.L1, trace[1].address) = BlockOf(cfg.L1, last.address)
    /\ L1.sets[last.index][last.way].dirty
    /\ \E s \in DOMAIN L1.sets : \E j \in DOMAIN L1.sets[s] :
          L1.sets[s][j].valid /\ ~L1.sets[s][j].dirty

\* ------------------------------------------------------------------------
\* C20.  Every access terminates.  On a cache with a lower level it makes at
\* most pref_m + 2 calls on it (at most one writeback, one demand read and
\* pref_m prefetch reads); on a last-level cache it makes none, so the call
\* depth never exceeds two.
C20_CallBound ==
    LET calls == last.calls
    IN  /\ Len(steps) = Len(calls)
        /\ \A k \in 1..Len(steps) : steps[k].info.calls = <<>>
        /\ ~cfg.hasL2 => calls = <<>>
        /\ Len(calls) <= cfg.L1.pref_m + 2
        /\ Cardinality(Sites(calls, "writeback")) <= 1
        /\ Cardinality(Sites(calls, "demand")) <= 1
        /\ Cardinality(Sites(calls, "prefetch")) <= cfg.L1.pref_m
        /\ Len(calls) = Cardinality(Sites(calls, "writeback"))
                          + Cardinality(Sites(calls, "demand"))
                          + Cardinality(Sites(calls, "prefetch"))

\* An access that reached the bound: pref_m + 2 calls, each run on L2.
C20_Witness ==
    /\ cfg.hasL2
    /\ cfg.L1.pref_m > 0
    /\ Len(last.calls) = cfg.L1.pref_m + 2
    /\ Len(steps) = cfg.L1.pref_m + 2


====
